---- MODULE Spec2Model ----
(***************************************************************************)
(* javalocate (src/src/main.rs): discovery, version comparison, filtering  *)
(* and sorting of installed JVMs.                                           *)
(*                                                                         *)
(* A Rust String is modelled as a sequence of one-character strings, so    *)
(* that prefix stripping, splitting and integer parsing are computed as    *)
(* the code computes them.  A call that panics (unwrap on None / Err)      *)
(* returns the value Panic instead of a result.                            *)
(***************************************************************************)
EXTENDS Integers, Sequences, FiniteSets, TLC

VARIABLES
    pc,                 \* position of the running process in main()
    args,               \* Args: the parsed command line of the current run
    cfg,                \* Config: the persisted list of extra paths
    host,               \* what uname / /etc/os-release / the file system answer
    operating_system,   \* OperatingSystem returned by get_operating_system
    collated,           \* Vec<Jvm> returned by collate_jvms
    jvms,               \* Vec<Jvm> of main(): the collated records that pass the filters
    exit_status,        \* process exit status, NoExit while running
    call,               \* a single function call under test: its arguments
    ret                 \* ... and what it returned

vars == <<pc, args, cfg, host, operating_system, collated, jvms, exit_status, call, ret>>

----------------------------------------------------------------------------
(* Bounds of the model *)

\* largest number of dot-delimited components of a generated version
MaxComps == 3

\* values of the first component, and of the later components, of generated
\* version strings
Majors == {1, 8, 11}
Minors == {0, 1}

----------------------------------------------------------------------------
(* Rust string primitives used by the code *)

Digit == {"0", "1", "2", "3", "4", "5", "6", "7", "8", "9"}

DigitVal(c) ==
    CASE c = "0" -> 0 [] c = "1" -> 1 [] c = "2" -> 2 [] c = "3" -> 3
      [] c = "4" -> 4 [] c = "5" -> 5 [] c = "6" -> 6 [] c = "7" -> 7
      [] c = "8" -> 8 [] c = "9" -> 9

\* i32::MAX
I32Max == 2147483647

\* the value a panicking call is modelled to return
Panic == "Panic"

\* str::starts_with
starts_with(s, p) ==
    /\ Len(s) >= Len(p)
    /\ SubSeq(s, 1, Len(p)) = p

\* s.strip_prefix(p).unwrap_or(s)
strip_prefix(s, p) ==
    IF starts_with(s, p) THEN SubSeq(s, Len(p) + 1, Len(s)) ELSE s

\* s.strip_suffix(p).unwrap_or(s)
strip_suffix(s, p) ==
    IF /\ Len(s) >= Len(p)
       /\ SubSeq(s, Len(s) - Len(p) + 1, Len(s)) = p
    THEN SubSeq(s, 1, Len(s) - Len(p))
    ELSE s

\* s.replace(from, to): every non-overlapping occurrence of the non-empty
\* pattern from, left to right
RECURSIVE replace(_, _, _)
replace(s, from, to) ==
    IF s = <<>> THEN <<>>
    ELSE IF starts_with(s, from)
    THEN to \o replace(SubSeq(s, Len(from) + 1, Len(s)), from, to)
    ELSE <<Head(s)>> \o replace(Tail(s), from, to)

\* s.contains(c) for a one-character pattern
contains(s, c) == \E i \in 1..Len(s) : s[i] = c

\* s.matches(c).count()
matches_count(s, c) == Cardinality({i \in 1..Len(s) : s[i] = c})

\* index of the first occurrence of c in s, 0 when there is none
FirstIndex(s, c) ==
    IF contains(s, c)
    THEN CHOOSE i \in 1..Len(s) : s[i] = c /\ \A j \in 1..(i - 1) : s[j] # c
    ELSE 0

\* s.split(c).collect(): "" gives [""], "8." gives ["8", ""]
RECURSIVE split(_, _)
split(s, c) ==
    LET i == FirstIndex(s, c)
    IN  IF i = 0 THEN <<s>>
        ELSE <<SubSeq(s, 1, i - 1)>> \o split(SubSeq(s, i + 1, Len(s)), c)

\* s.split_inclusive(c).collect(): "17.0" gives ["17.", "0"], "" gives []
RECURSIVE split_inclusive(_, _)
split_inclusive(s, c) ==
    LET i == FirstIndex(s, c)
    IN  IF s = <<>> THEN <<>>
        ELSE IF i = 0 THEN <<s>>
        ELSE <<SubSeq(s, 1, i)>> \o split_inclusive(SubSeq(s, i + 1, Len(s)), c)

\* magnitude of a digit string, or -1 when it does not fit in 31 bits
RECURSIVE DigitsValue(_, _)
DigitsValue(ds, acc) ==
    IF ds = <<>> THEN acc
    ELSE LET d == DigitVal(Head(ds))
         IN  IF acc > (I32Max - d) \div 10 THEN -1
             ELSE DigitsValue(Tail(ds), acc * 10 + d)

\* s.parse::<i32>(): an optional sign, then one or more decimal digits, in
\* range; anything else is Err
parse_i32(s) ==
    LET signed == Len(s) > 0 /\ s[1] \in {"+", "-"}
        body   == IF signed THEN Tail(s) ELSE s
        mag    == DigitsValue(body, 0)
    IN  IF body = <<>> \/ (\E i \in 1..Len(body) : body[i] \notin Digit)
        THEN [ok |-> FALSE, val |-> 0]
        ELSE IF mag < 0
        THEN [ok |-> FALSE, val |-> 0]
        ELSE [ok |-> TRUE, val |-> IF signed /\ s[1] = "-" THEN 0 - mag ELSE mag]

\* char::to_ascii_lowercase
to_ascii_lowercase(c) ==
    CASE c = "A" -> "a" [] c = "B" -> "b" [] c = "C" -> "c" [] c = "D" -> "d"
      [] c = "E" -> "e" [] c = "F" -> "f" [] c = "G" -> "g" [] c = "H" -> "h"
      [] c = "I" -> "i" [] c = "J" -> "j" [] c = "K" -> "k" [] c = "L" -> "l"
      [] c = "M" -> "m" [] c = "N" -> "n" [] c = "O" -> "o" [] c = "P" -> "p"
      [] c = "Q" -> "q" [] c = "R" -> "r" [] c = "S" -> "s" [] c = "T" -> "t"
      [] c = "U" -> "u" [] c = "V" -> "v" [] c = "W" -> "w" [] c = "X" -> "x"
      [] c = "Y" -> "y" [] c = "Z" -> "z" [] OTHER -> c

\* str::eq_ignore_ascii_case
eq_ignore_ascii_case(a, b) ==
    /\ Len(a) = Len(b)
    /\ \A i \in 1..Len(a) : to_ascii_lowercase(a[i]) = to_ascii_lowercase(b[i])

\* fn trim_string(value) -> &str
trim_string(value) ==
    IF Len(value) >= 2 /\ SubSeq(value, Len(value) - 1, Len(value)) = <<"\r", "\n">>
    THEN SubSeq(value, 1, Len(value) - 2)
    ELSE strip_suffix(value, <<"\n">>)

\* Option<T>
None == [some |-> FALSE, v |-> <<>>]
Some(x) == [some |-> TRUE, v |-> x]

\* let x = value; body(x): the value is computed once and then used by name
Let(value, body(_)) == CHOOSE result \in {body(x) : x \in {value}} : TRUE

\* string literals of the source
str_Linux == <<"L", "i", "n", "u", "x">>
str_Darwin == <<"D", "a", "r", "w", "i", "n">>
str_arm == <<"a", "r", "m">>
str_x86 == <<"x", "8", "6">>
str_i386 == <<"i", "3", "8", "6">>
str_i586 == <<"i", "5", "8", "6">>
str_i686 == <<"i", "6", "8", "6">>
str_arm64 == <<"a", "r", "m", "6", "4">>
str_amd64 == <<"a", "m", "d", "6", "4">>
str_macOS == <<"m", "a", "c", "O", "S">>
str_ubuntu == <<"u", "b", "u", "n", "t", "u">>
str_debian == <<"d", "e", "b", "i", "a", "n">>
str_rhel == <<"r", "h", "e", "l">>
str_centos == <<"c", "e", "n", "t", "o", "s">>
str_fedora == <<"f", "e", "d", "o", "r", "a">>
str_java == <<"j", "a", "v", "a">>
usr_lib_jvm == <<"/", "u", "s", "r", "/", "l", "i", "b", "/", "j", "v", "m">>
x86_64 == <<"x", "8", "6", "_", "6", "4">>
aarch64 == <<"a", "a", "r", "c", "h", "6", "4">>

\* exit statuses: exitcode::OK, exitcode::CONFIG, exitcode::UNAVAILABLE, and
\* the status of a process that panicked
OK == 0
CONFIG == 78
UNAVAILABLE == 69
PanicStatus == 101

----------------------------------------------------------------------------
(* Version comparison *)

\* compare_version_values with the legacy prefix left in place
compare_version_values_keep_prefix(version1, version2) ==
    LET count_version1 == split(replace(version1, <<"_">>, <<".">>), ".")
        count_version2 == split(replace(version2, <<"_">>, <<".">>), ".")
        RECURSIVE loop(_)
        loop(i) ==
            IF i > Len(count_version1) THEN "Equal"
            ELSE IF i > Len(count_version2) THEN Panic
            ELSE LET p1 == parse_i32(count_version1[i])
                     p2 == parse_i32(count_version2[i])
                 IN  IF ~p1.ok \/ ~p2.ok THEN Panic
                     ELSE IF p1.val > p2.val THEN "Greater"
                     ELSE IF p1.val < p2.val THEN "Less"
                     ELSE loop(i + 1)
    IN  loop(1)

\* fn compare_version_values(version1, version2) -> Ordering
compare_version_values(version1, version2) ==
    LET normalised1 == replace(strip_prefix(version1, <<"1", ".">>), <<"_">>, <<".">>)
        normalised2 == replace(strip_prefix(version2, <<"1", ".">>), <<"_">>, <<".">>)
        count_version1 == split(normalised1, ".")
        count_version2 == split(normalised2, ".")
        RECURSIVE loop(_)
        loop(i) ==
            IF i > Len(count_version1) THEN "Equal"
            ELSE LET p1 == parse_i32(count_version1[i])
                 IN  IF ~p1.ok THEN Panic
                     ELSE IF i > Len(count_version2) THEN Panic
                     ELSE LET p2 == parse_i32(count_version2[i])
                          IN  IF ~p2.ok THEN Panic
                              ELSE IF p1.val > p2.val THEN "Greater"
                              ELSE IF p1.val < p2.val THEN "Less"
                              ELSE loop(i + 1)
    IN  loop(1)

\* fn get_compare_version(jvm, version) -> String
get_compare_version(jvm, version) ==
    LET version_count == matches_count(version, ".")
        jvm_version ==
            IF /\ starts_with(jvm.version, <<"1", ".">>)
               /\ matches_count(version, ".") = 0
               /\ ~starts_with(version, <<"1", ".">>)
            THEN strip_prefix(jvm.version, <<"1", ".">>)
            ELSE jvm.version
        tmp_version == split_inclusive(jvm_version, ".")
        RECURSIVE push(_)
        push(i) ==
            IF i > version_count + 1 THEN <<>>
            ELSE (IF i <= Len(tmp_version) THEN tmp_version[i] ELSE <<>>) \o push(i + 1)
    IN  strip_suffix(push(1), <<".">>)

\* what a function returning bool gives: a value, or a panic
Returned(b) == [ok |-> TRUE, val |-> b]
Unwound == [ok |-> FALSE, val |-> FALSE]

\* filter_ver whose exact branch rejects only an older installation
filter_ver_is_lt(ver, jvm) ==
    IF ver.some
    THEN LET version == IF contains(ver.v, "+") THEN replace(ver.v, <<"+">>, <<>>) ELSE ver.v
             compare_jvm_version == get_compare_version(jvm, version)
             compare ==
                 IF contains(ver.v, "+")
                 THEN compare_version_values(compare_jvm_version, version)
                 ELSE compare_version_values(version, compare_jvm_version)
         IN  IF compare = Panic THEN Unwound
             ELSE IF contains(ver.v, "+") THEN Returned(compare # "Less")
             ELSE Returned(compare # "Greater")
    ELSE Returned(TRUE)

\* fn filter_ver(ver, jvm) -> bool
filter_ver(ver, jvm) ==
    IF ver.some
    THEN LET version == ver.v
         IN  IF contains(version, "+")
             THEN LET sanitised_version == replace(version, <<"+">>, <<>>)
                      compare_jvm_version == get_compare_version(jvm, sanitised_version)
                      compare == compare_version_values(compare_jvm_version, sanitised_version)
                  IN  IF compare = Panic THEN Unwound
                      ELSE IF compare = "Less" THEN Returned(FALSE)
                      ELSE Returned(TRUE)
             ELSE LET compare_jvm_version == get_compare_version(jvm, version)
                      compare == compare_version_values(version, compare_jvm_version)
                  IN  IF compare = Panic THEN Unwound
                      ELSE IF compare # "Equal" THEN Returned(FALSE)
                      ELSE Returned(TRUE)
    ELSE Returned(TRUE)

\* fn compare_boosting_architecture(a, b, default_arch) -> Ordering
compare_boosting_architecture(a, b, default_arch) ==
    Let(compare_version_values(b.version, a.version), LAMBDA version_test :
        IF version_test = "Equal"
        THEN IF b.architecture # default_arch /\ a.architecture = default_arch
             THEN "Less"
             ELSE IF b.architecture = default_arch /\ a.architecture # default_arch
             THEN "Greater"
             ELSE version_test
        ELSE version_test)

\* jvms.sort_by(|a, b| compare_boosting_architecture(a, b, default_arch)):
\* the stable insertion sort the standard library runs on a short slice; each
\* element is moved left while it compares Less than its left neighbour.  A
\* panic of the comparator unwinds out of the sort.
RECURSIVE insert_tail(_, _, _)
insert_tail(v, j, default_arch) ==
    IF j = 1 THEN Some(v)
    ELSE Let(compare_boosting_architecture(v[j], v[j - 1], default_arch), LAMBDA c :
             IF c = Panic THEN None
             ELSE IF c = "Less"
             THEN insert_tail([v EXCEPT ![j - 1] = v[j], ![j] = v[j - 1]], j - 1, default_arch)
             ELSE Some(v))

RECURSIVE insertion_sort(_, _, _)
insertion_sort(v, i, default_arch) ==
    IF i > Len(v) THEN Some(v)
    ELSE Let(insert_tail(v, i, default_arch), LAMBDA r :
             IF r.some THEN insertion_sort(r.v, i + 1, default_arch) ELSE None)

sort_by(v, default_arch) == insertion_sort(v, 2, default_arch)

----------------------------------------------------------------------------
(* Platform probing and discovery (the Linux build) *)

\* struct Jvm
Jvm(version, name, architecture, path) ==
    [version |-> version, name |-> name, architecture |-> architecture, path |-> path]

\* struct OperatingSystem
OperatingSystem(name, architecture) == [name |-> name, architecture |-> architecture]

NoOperatingSystem == OperatingSystem(<<>>, <<>>)

\* how a call of main() ends: it returns a value, exits the process with a
\* status, or panics
Ok(value) == [how |-> "returned", status |-> 0, value |-> value]
Exit(status, empty) == [how |-> "exit", status |-> status, value |-> empty]
Panicked(empty) == [how |-> "panic", status |-> PanicStatus, value |-> empty]

\* properties.get(key).unwrap_or("").replace("\"", "")
property(properties, key) ==
    replace(IF properties[key].some THEN properties[key].v ELSE <<>>, <<"\"">>, <<>>)

\* fn get_operating_system() -> OperatingSystem; h is what the host answers:
\* the output of uname -ps and the content of /etc/os-release
get_operating_system(h) ==
    LET parts == split(h.uname_stdout, " ")
    IN  IF Len(parts) < 2 THEN Panicked(NoOperatingSystem)
        ELSE
        LET os == trim_string(parts[1])
            arch == trim_string(parts[2])
            default_architecture ==
                IF eq_ignore_ascii_case(os, str_Darwin)
                THEN IF eq_ignore_ascii_case(arch, str_arm) THEN Some(aarch64)
                     ELSE Some(x86_64)
                ELSE IF eq_ignore_ascii_case(os, str_Linux)
                THEN IF eq_ignore_ascii_case(arch, x86_64) THEN Some(x86_64)
                     ELSE IF eq_ignore_ascii_case(arch, str_i386) THEN Some(str_x86)
                     ELSE IF eq_ignore_ascii_case(arch, str_i586) THEN Some(str_x86)
                     ELSE IF eq_ignore_ascii_case(arch, str_i686) THEN Some(str_x86)
                     ELSE IF eq_ignore_ascii_case(arch, aarch64) THEN Some(aarch64)
                     ELSE IF eq_ignore_ascii_case(arch, str_arm64) THEN Some(str_arm64)
                     ELSE None
                ELSE None
        IN  IF ~default_architecture.some THEN Exit(UNAVAILABLE, NoOperatingSystem)
            ELSE IF eq_ignore_ascii_case(os, str_Linux)
            THEN IF ~h.os_release.some THEN Exit(UNAVAILABLE, NoOperatingSystem)
                 ELSE Ok(OperatingSystem(property(h.os_release.v, "ID"),
                                         default_architecture.v))
            ELSE IF eq_ignore_ascii_case(os, str_Darwin)
            THEN Ok(OperatingSystem(str_macOS, default_architecture.v))
            ELSE Ok(OperatingSystem(<<>>, default_architecture.v))

\* dir_lookup.get(os.name)
dir_lookup(name) ==
    IF name \in {str_ubuntu, str_debian, str_rhel, str_centos, str_fedora}
    THEN Some(usr_lib_jvm)
    ELSE None

\* the body of the inner loop of collate_jvms for one directory entry e of
\* root: the Jvm records pushed (none or one), or a panic
collate_entry(root, e) ==
    LET path == root \o <<"/">> \o e.file_name
        is_dir == e.kind \in {"dir", "link_to_dir"}
        link_is_err == e.kind \in {"dir", "file"}
    IN  IF e.kind = "dangling_link" THEN None
        ELSE IF ~(is_dir /\ link_is_err) THEN Some(<<>>)
        ELSE IF e.release.some
        THEN Some(<<Jvm(property(e.release.v, "JAVA_VERSION"), e.file_name,
                        property(e.release.v, "OS_ARCH"), path)>>)
        ELSE LET parts == split(e.file_name, "-")
             IN  IF Len(parts) < 3 \/ parts[2] # str_java THEN Some(<<>>)
                 ELSE IF Len(parts) < 4 THEN None
                 ELSE Some(<<Jvm(parts[2], e.file_name,
                                 replace(replace(parts[4], str_amd64, x86_64),
                                         str_i386, str_x86),
                                 path)>>)

\* for path in fs::read_dir(path).unwrap() { ... }
RECURSIVE collate_entries(_, _, _)
collate_entries(root, entries, acc) ==
    IF entries = <<>> THEN Some(acc)
    ELSE Let(collate_entry(root, Head(entries)), LAMBDA r :
             IF r.some THEN collate_entries(root, Tail(entries), acc \o r.v) ELSE None)

\* for path in paths { ... }; fs maps a path to its directory listing, when it
\* has one
RECURSIVE collate_paths(_, _, _)
collate_paths(paths, fs, acc) ==
    IF paths = <<>> THEN Some(acc)
    ELSE IF ~fs[Head(paths)].some THEN None
    ELSE Let(collate_entries(Head(paths), fs[Head(paths)].v, acc), LAMBDA r :
             IF r.some THEN collate_paths(Tail(paths), fs, r.v) ELSE None)

\* fn collate_jvms(os, cfg) -> Vec<Jvm>, target_os = "linux"
collate_jvms(os, config, fs) ==
    LET path == dir_lookup(os.name)
    IN  IF ~path.some /\ config.paths = <<>> THEN Exit(UNAVAILABLE, <<>>)
        ELSE IF ~path.some THEN Panicked(<<>>)
        ELSE LET paths == config.paths \o <<path.v>>
             IN  Let(collate_paths(paths, fs, <<>>), LAMBDA scanned :
                     IF ~scanned.some THEN Panicked(<<>>)
                     ELSE Let(sort_by(scanned.v, os.architecture), LAMBDA sorted :
                              IF sorted.some THEN Ok(sorted.v) ELSE Panicked(<<>>)))

\* filter_arch comparing without regard to case
filter_arch_ignore_case(arch, jvm) ==
    IF arch.some /\ ~eq_ignore_ascii_case(jvm.architecture, arch.v) THEN FALSE ELSE TRUE

\* fn filter_arch(arch, jvm) -> bool
filter_arch(arch, jvm) ==
    IF arch.some /\ jvm.architecture # arch.v THEN FALSE ELSE TRUE

\* fn filter_name(name, jvm) -> bool
filter_name(name, jvm) ==
    IF name.some /\ jvm.name # name.v THEN FALSE ELSE TRUE

\* .into_iter().filter(filter_arch).filter(filter_ver).filter(filter_name)
\* .collect(): each record goes through the filters in turn, a later filter
\* seeing only what the earlier ones let through
RECURSIVE filter_collect(_, _, _)
filter_collect(list, a, acc) ==
    IF list = <<>> THEN Some(acc)
    ELSE LET tmp == Head(list)
         IN  IF ~filter_arch(a.arch, tmp) THEN filter_collect(Tail(list), a, acc)
             ELSE Let(filter_ver(a.version, tmp), LAMBDA ver :
                      IF ~ver.ok THEN None
                      ELSE IF ~ver.val THEN filter_collect(Tail(list), a, acc)
                      ELSE IF ~filter_name(a.name, tmp)
                      THEN filter_collect(Tail(list), a, acc)
                      ELSE filter_collect(Tail(list), a, Append(acc, tmp)))

----------------------------------------------------------------------------
(* main(): one action per step of a run; the configuration outlives the run *)

NoExit == -1

\* the process ends with the given status
ExitProcess(status) ==
    /\ pc' = "exited"
    /\ exit_status' = status

\* a position that finds nothing
position_absent(paths, x) == 0

\* the position of x in paths, 0 when it is not there
position(paths, x) ==
    IF \E i \in 1..Len(paths) : paths[i] = x
    THEN CHOOSE i \in 1..Len(paths) : paths[i] = x /\ \A j \in 1..(i - 1) : paths[j] # x
    ELSE 0

\* paths.remove(pos)
remove(paths, pos) == SubSeq(paths, 1, pos - 1) \o SubSeq(paths, pos + 1, Len(paths))

\* main, --register-location
RegisterLocation ==
    /\ pc = "start"
    /\ args.register_location.some
    /\ LET location == args.register_location.v
       IN  cfg' = IF position(cfg.paths, location) = 0
                  THEN [cfg EXCEPT !.paths = Append(@, location)]
                  ELSE cfg
    /\ ExitProcess(OK)
    /\ UNCHANGED <<args, host, operating_system, collated, jvms, call, ret>>

\* main, --remove-location
RemoveLocation ==
    /\ pc = "start"
    /\ ~args.register_location.some
    /\ args.remove_location.some
    /\ LET pos == position(cfg.paths, args.remove_location.v)
       IN  cfg' = IF pos # 0 THEN [cfg EXCEPT !.paths = remove(@, pos)] ELSE cfg
    /\ ExitProcess(OK)
    /\ UNCHANGED <<args, host, operating_system, collated, jvms, call, ret>>

\* main, --display-locations
DisplayLocations ==
    /\ pc = "start"
    /\ ~args.register_location.some
    /\ ~args.remove_location.some
    /\ args.display_locations
    /\ ExitProcess(OK)
    /\ UNCHANGED <<args, cfg, host, operating_system, collated, jvms, call, ret>>

\* main: let operating_system = get_operating_system()
GetOperatingSystem ==
    /\ pc = "start"
    /\ ~args.register_location.some
    /\ ~args.remove_location.some
    /\ ~args.display_locations
    /\ \E r \in {get_operating_system(host)} :
           /\ operating_system' = r.value
           /\ IF r.how = "returned"
              THEN pc' = "collate" /\ UNCHANGED exit_status
              ELSE ExitProcess(r.status)
    /\ UNCHANGED <<args, cfg, host, collated, jvms, call, ret>>

\* main: collate_jvms(&operating_system, &cfg)
CollateJvms ==
    /\ pc = "collate"
    /\ \E r \in {collate_jvms(operating_system, cfg, host.fs)} :
           /\ collated' = r.value
           /\ IF r.how = "returned"
              THEN pc' = "filter" /\ UNCHANGED exit_status
              ELSE ExitProcess(r.status)
    /\ UNCHANGED <<args, cfg, host, operating_system, jvms, call, ret>>

\* main: the filter chain over the collated records
FilterJvms ==
    /\ pc = "filter"
    /\ \E r \in {filter_collect(collated, args, <<>>)} :
           IF r.some
           THEN jvms' = r.v /\ pc' = "report" /\ UNCHANGED exit_status
           ELSE jvms' = <<>> /\ ExitProcess(PanicStatus)
    /\ UNCHANGED <<args, cfg, host, operating_system, collated, call, ret>>

\* main: the response to an empty result, or the listing and the return
Report ==
    /\ pc = "report"
    /\ IF jvms = <<>>
       THEN IF args.fail THEN ExitProcess(CONFIG) ELSE ExitProcess(OK)
       ELSE ExitProcess(OK)
    /\ UNCHANGED <<args, cfg, host, operating_system, collated, jvms, call, ret>>

----------------------------------------------------------------------------
(* Generated inputs: version strings written from integer components *)

\* decimal digits of n >= 0
RECURSIVE ToDigits(_)
ToDigits(n) ==
    LET d == CASE n % 10 = 0 -> "0" [] n % 10 = 1 -> "1" [] n % 10 = 2 -> "2"
               [] n % 10 = 3 -> "3" [] n % 10 = 4 -> "4" [] n % 10 = 5 -> "5"
               [] n % 10 = 6 -> "6" [] n % 10 = 7 -> "7" [] n % 10 = 8 -> "8"
               [] n % 10 = 9 -> "9"
    IN  IF n < 10 THEN <<d>> ELSE ToDigits(n \div 10) \o <<d>>

\* the components joined by ".", the last separator being lastSep
RECURSIVE Join(_, _)
Join(comps, lastSep) ==
    IF Len(comps) = 1 THEN ToDigits(comps[1])
    ELSE IF Len(comps) = 2 THEN ToDigits(comps[1]) \o <<lastSep>> \o ToDigits(comps[2])
    ELSE ToDigits(comps[1]) \o <<".">> \o Join(Tail(comps), lastSep)

\* component sequences c1..cn, 1 <= n <= max
CompSeqs(max) ==
    UNION {{<<m>> \o t : m \in Majors, t \in [1..(n - 1) -> Minors]} : n \in 1..max}

\* how a component sequence is written: 8.0.1, 8.0_1, 1.8.0.1, 1.8.0_1
Forms == {"modern", "modern_patch", "legacy", "legacy_patch"}

Written(form, comps) ==
    CASE form = "modern" -> Join(comps, ".")
      [] form = "modern_patch" -> Join(comps, "_")
      [] form = "legacy" -> <<"1", ".">> \o Join(comps, ".")
      [] form = "legacy_patch" -> <<"1", ".">> \o Join(comps, "_")

\* a version string together with the components and form it was written from
Version(form, comps) == [form |-> form, comps |-> comps, str |-> Written(form, comps)]

Versions(forms, max) ==
    {Version(f, c) : f \in forms \cap {"modern", "legacy"}, c \in CompSeqs(max)}
        \cup {Version(f, c) : f \in forms \cap {"modern_patch", "legacy_patch"},
                              c \in {x \in CompSeqs(max) : Len(x) >= 2}}

\* the first n elements of a sequence (all of them when it is shorter)
Prefix(s, n) == SubSeq(s, 1, IF n < Len(s) THEN n ELSE Len(s))

IsLegacyForm(str) == starts_with(str, <<"1", ".">>)

\* the numeric ordering of two component sequences, decided by the first
\* position where they differ; Equal when one is a prefix of the other
RECURSIVE NumericOrder(_, _)
NumericOrder(c1, c2) ==
    IF c1 = <<>> \/ c2 = <<>> THEN "Equal"
    ELSE IF Head(c1) > Head(c2) THEN "Greater"
    ELSE IF Head(c1) < Head(c2) THEN "Less"
    ELSE NumericOrder(Tail(c1), Tail(c2))

Inverse(o) ==
    CASE o = "Less" -> "Greater" [] o = "Greater" -> "Less" [] OTHER -> o

X86_64 == <<"X", "8", "6", "_", "6", "4">>

----------------------------------------------------------------------------
(* Runs of the program: hosts, file systems and command lines *)

Quoted(str) == <<"\"">> \o str \o <<"\"">>

PathA == <<"/", "a">>
PathB == <<"/", "b">>
\* a path at which there is no directory
PathC == <<"/", "c">>
ExtraPaths == {PathA, PathB, PathC}

\* the output of uname -ps and, when it is readable, /etc/os-release
Host(os, arch, os_release, fs) ==
    [uname_stdout |-> os \o <<" ">> \o arch \o <<"\n">>, os_release |-> os_release,
     fs |-> fs]

OsRelease(id) == Some([ID |-> Some(id)])

\* a directory entry with a release file
Release(file_name, version, arch) ==
    [file_name |-> file_name, kind |-> "dir",
     release |-> Some([JAVA_VERSION |-> Some(Quoted(version)), OS_ARCH |-> Some(Quoted(arch))])]

\* a directory entry without one
Entry(file_name, kind) == [file_name |-> file_name, kind |-> kind, release |-> None]

jdk11 == Release(<<"t", "1", "1">>, Written("modern", <<11, 0, 1>>), x86_64)
jdk11a == Release(<<"t", "1", "1", "a">>, Written("modern", <<11, 0, 1>>), aarch64)
jdk8 == Release(<<"t", "8">>, Written("legacy_patch", <<8, 0, 1>>), x86_64)
jdk8a == Release(<<"t", "8", "a">>, Written("modern", <<8, 0, 1>>), aarch64)
jdk11short == Release(<<"t", "1", "1", "s">>, Written("modern", <<11>>), x86_64)
link == [jdk11 EXCEPT !.file_name = <<"l", "n", "k">>, !.kind = "link_to_dir"]
file == Entry(<<"f", "i", "l", "e">>, "file")
java8dir ==
    Entry(<<"j", "a", "v", "a", "-", "8", "-", "o", "p", "e", "n", "j", "d", "k", "-",
            "a", "m", "d", "6", "4">>, "dir")

\* a release file without the JAVA_VERSION property
noversion ==
    [file_name |-> <<"n", "o", "v">>, kind |-> "dir",
     release |-> Some([JAVA_VERSION |-> None, OS_ARCH |-> Some(Quoted(x86_64))])]

\* a release file whose OS_ARCH is the raw token amd64
jdk11amd64 == Release(<<"t", "a", "m", "d">>, Written("modern", <<11, 0, 1>>), str_amd64)

\* directories without a release file, named <prefix>-java-<version> and
\* <prefix>-java-<version>-<vendor>-<arch>
java3dir == Entry(<<"a", "-", "j", "a", "v", "a", "-", "8">>, "dir")
java5dir ==
    Entry(<<"a", "-", "j", "a", "v", "a", "-", "8", "-", "o", "-",
            "a", "m", "d", "6", "4">>, "dir")

Roots == {usr_lib_jvm} \cup ExtraPaths

\* a file system: the listing of each root, None for a root that does not exist
FileSystem(default, a, b) ==
    [r \in Roots |-> IF r = usr_lib_jvm THEN default
                     ELSE IF r = PathA THEN a
                     ELSE IF r = PathB THEN b
                     ELSE None]

FileSystems ==
    {FileSystem(Some(<<jdk8, link, jdk11, jdk11a>>), Some(<<file, jdk8a>>), None),
     FileSystem(Some(<<jdk11short, jdk11>>), Some(<<jdk11>>), Some(<<>>)),
     FileSystem(Some(<<java8dir>>), Some(<<jdk11a, jdk11>>), Some(<<jdk8a>>)),
     FileSystem(Some(<<noversion, jdk11>>), Some(<<noversion>>), Some(<<>>)),
     FileSystem(Some(<<jdk11amd64>>), Some(<<java5dir>>), Some(<<java3dir, jdk11>>)),
     FileSystem(Some(<<>>), Some(<<>>), Some(<<>>))}

Hosts ==
    {Host(str_Linux, arch, OsRelease(Quoted(id)), fs) :
        arch \in {x86_64, aarch64}, id \in {str_ubuntu, <<"a", "r", "c", "h">>},
        fs \in FileSystems}
      \cup {Host(str_Linux, <<"u", "n", "k", "n", "o", "w", "n">>,
                 OsRelease(str_ubuntu), fs) : fs \in FileSystems}
      \cup {Host(str_Linux, x86_64, None, fs) : fs \in FileSystems}
      \cup {Host(<<"F", "r", "e", "e", "B", "S", "D">>, str_amd64, None, fs) :
                fs \in FileSystems}

\* struct Args with no option given
NoArgs ==
    [name |-> None, arch |-> None, version |-> None, detailed |-> FALSE,
     fail |-> FALSE, register_location |-> None, remove_location |-> None,
     display_locations |-> FALSE]

\* command lines: a configuration operation, or a discovery with filters
ConfigArgs ==
    {[NoArgs EXCEPT !.register_location = Some(p)] : p \in ExtraPaths}
      \cup {[NoArgs EXCEPT !.remove_location = Some(p)] : p \in ExtraPaths}
      \cup {[NoArgs EXCEPT !.register_location = Some(PathB),
                           !.remove_location = Some(PathA)]}
      \cup {[NoArgs EXCEPT !.display_locations = TRUE]}

DiscoveryArgs ==
    {[NoArgs EXCEPT !.name = n, !.arch = a, !.version = v, !.fail = f] :
        n \in {None, Some(<<"t", "1", "1">>)},
        a \in {None, Some(x86_64), Some(X86_64)},
        v \in {None, Some(Written("modern", <<11>>)),
               Some(Written("modern", <<8, 0>>) \o <<"+">>),
               Some(Written("modern", <<11, 0, 1, 0>>))},
        f \in BOOLEAN}

\* the program is started with a command line; the configuration is the one
\* the previous runs stored
Invoke ==
    /\ pc \in {"idle", "exited"}
    /\ \E a \in ConfigArgs \cup DiscoveryArgs : args' = a
    /\ pc' = "start"
    /\ operating_system' = NoOperatingSystem
    /\ collated' = <<>>
    /\ jvms' = <<>>
    /\ exit_status' = NoExit
    /\ UNCHANGED <<cfg, host, call, ret>>

Init ==
    /\ pc = "idle"
    /\ args = NoArgs
    /\ cfg = [paths |-> <<>>]
    /\ host \in Hosts
    /\ operating_system = NoOperatingSystem
    /\ collated = <<>>
    /\ jvms = <<>>
    /\ exit_status = NoExit
    /\ call = <<>>
    /\ ret = <<>>

Next ==
    \/ Invoke
    \/ RegisterLocation
    \/ RemoveLocation
    \/ DisplayLocations
    \/ GetOperatingSystem
    \/ CollateJvms
    \/ FilterJvms
    \/ Report

Spec == Init /\ [][Next]_vars

\* the run is a discovery: no configuration operation was asked for
IsDiscovery ==
    /\ ~args.register_location.some
    /\ ~args.remove_location.some
    /\ ~args.display_locations

\* C8: the selection result holds exactly the collated records that pass every
\* supplied filter, in the order they had in the sorted list; a filter that was
\* not supplied passes every record; the architecture and name filters are
\* exact, case-sensitive string equality.
C8_FilterConjunction ==
    pc = "report" =>
        LET Passes(jvm) ==
                /\ args.arch.some => jvm.architecture = args.arch.v
                /\ args.version.some => filter_ver(args.version, jvm) = Returned(TRUE)
                /\ args.name.some => jvm.name = args.name.v
        IN  jvms = SelectSeq(collated, Passes)

C8_Witness ==
    /\ pc = "report"
    /\ args.arch.some /\ args.version.some /\ args.name.some
    /\ jvms # <<>>
    /\ Len(jvms) < Len(collated)

\* C9: a discovery run ends in success, in no match without --fail, in no match
\* with --fail, or in the unsupported-host outcome, and in nothing else; an
\* empty result is a failure status only under --fail, and the unsupported-host
\* status differs from the strict no-match status.
C9_ExitStatusPolicy ==
    (pc = "exited" /\ IsDiscovery) =>
        /\ exit_status \in {OK, CONFIG, UNAVAILABLE}
        /\ exit_status = CONFIG => (args.fail /\ jvms = <<>>)
        /\ jvms # <<>> => exit_status = OK
        /\ CONFIG # UNAVAILABLE

\* C10: on Linux collate_jvms ends in the Unavailable outcome exactly when the
\* distribution has no default root and no extra path is configured; with an
\* unknown distribution and an extra path configured, discovery proceeds.
C10_DefaultRootPolicy ==
    (operating_system # NoOperatingSystem /\ pc \in {"filter", "report", "exited"}) =>
        LET unknown == ~dir_lookup(operating_system.name).some
        IN  /\ exit_status = UNAVAILABLE <=> (unknown /\ cfg.paths = <<>>)
            /\ (unknown /\ cfg.paths # <<>>) => exit_status # PanicStatus

\* the directory entries of the given roots, in scan order; a root that does
\* not exist has none
RECURSIVE Listing(_, _)
Listing(paths, fs) ==
    IF paths = <<>> THEN <<>>
    ELSE (IF fs[Head(paths)].some THEN fs[Head(paths)].v ELSE <<>>)
             \o Listing(Tail(paths), fs)

\* the roots a discovery run scans on a distribution with a default root
ScannedRoots == cfg.paths \o <<usr_lib_jvm>>

\* collate_jvms was called in this run and has ended, by returning or not
Collated ==
    /\ IsDiscovery
    /\ operating_system # NoOperatingSystem
    /\ pc \in {"filter", "report", "exited"}

\* every scanned root exists and holds only plain directories with a release
\* file
OnlyReleaseDirectories ==
    /\ dir_lookup(operating_system.name).some
    /\ \A i \in 1..Len(ScannedRoots) : host.fs[ScannedRoots[i]].some
    /\ LET entries == Listing(ScannedRoots, host.fs)
       IN  \A i \in 1..Len(entries) : entries[i].kind = "dir" /\ entries[i].release.some

\* C11: a release file without JAVA_VERSION gives a Jvm whose version is the
\* empty string; the sort of collate_jvms completes on a list holding such
\* records and places them after every record with a non-empty version.
\* Stated for scans in which the non-empty versions compare with each other
\* without failure.
C11_EmptyVersionSortsLast ==
    (/\ Collated
     /\ OnlyReleaseDirectories
     /\ LET entries == Listing(ScannedRoots, host.fs)
        IN  \A i, j \in 1..Len(entries) :
                (entries[i].release.v.JAVA_VERSION.some
                     /\ entries[j].release.v.JAVA_VERSION.some) =>
                    compare_version_values(
                        property(entries[i].release.v, "JAVA_VERSION"),
                        property(entries[j].release.v, "JAVA_VERSION")) # Panic) =>
        LET entries == Listing(ScannedRoots, host.fs)
        IN  /\ Len(collated) = Len(entries)
            /\ \A i \in 1..Len(entries) :
                   ~entries[i].release.v.JAVA_VERSION.some =>
                       \E k \in 1..Len(collated) :
                           /\ collated[k].name = entries[i].file_name
                           /\ collated[k].version = <<>>
            /\ \A i, j \in 1..Len(collated) :
                   (collated[i].version = <<>> /\ collated[j].version # <<>>) => j < i

\* the raw architecture tokens that have a normalized spelling
RawArchitectures == {str_amd64, str_i386, str_i586, str_i686}

\* C12: every Jvm record returned by collate_jvms has its architecture in the
\* normalized vocabulary: none carries a raw token amd64, i386, i586 or i686.
C12_ArchitectureCanonical ==
    (Collated /\ pc \in {"filter", "report"}) =>
        \A k \in 1..Len(collated) : collated[k].architecture \notin RawArchitectures

\* a directory without a release file whose name follows the convention
\* <prefix>-java-<version>[-<vendor>-<arch>]
IsFallbackDirectory(e) ==
    /\ e.kind = "dir"
    /\ ~e.release.some
    /\ Len(split(e.file_name, "-")) >= 3
    /\ split(e.file_name, "-")[2] = str_java

\* the version the convention gives a directory entry: JAVA_VERSION of its
\* release file, or the <version> segment of its name
ConventionVersion(e) ==
    IF e.release.some THEN property(e.release.v, "JAVA_VERSION")
    ELSE split(e.file_name, "-")[3]

\* C13: a directory without a release file whose name has at least 3
\* hyphen-delimited segments, the second being "java", gives a Jvm whose
\* version is the name's <version> segment, and the discovery pass completes,
\* also for a name of exactly 3 segments.  Stated for scans of plain
\* directories whose versions compare with each other without failure.
C13_DirectoryNameFallback ==
    (/\ Collated
     /\ dir_lookup(operating_system.name).some
     /\ \A i \in 1..Len(ScannedRoots) : host.fs[ScannedRoots[i]].some
     /\ LET entries == Listing(ScannedRoots, host.fs)
        IN  /\ \A i \in 1..Len(entries) :
                   entries[i].kind = "dir"
                       /\ (entries[i].release.some \/ IsFallbackDirectory(entries[i]))
            /\ \A i, j \in 1..Len(entries) :
                   compare_version_values(ConventionVersion(entries[i]),
                                          ConventionVersion(entries[j])) # Panic) =>
        LET entries == Listing(ScannedRoots, host.fs)
        IN  \A i \in 1..Len(entries) :
                IsFallbackDirectory(entries[i]) =>
                    \E k \in 1..Len(collated) :
                        /\ collated[k].name = entries[i].file_name
                        /\ collated[k].version = split(entries[i].file_name, "-")[3]

NoDuplicates(paths) == \A i, j \in 1..Len(paths) : paths[i] = paths[j] => i = j

\* the list without the entries equal to x, the others in their order
Without(paths, x) == SelectSeq(paths, LAMBDA y : y # x)

\* C15: a run with --register-location or --remove-location exits with
\* success without running discovery and leaves a path list without
\* duplicates; registering appends the path at the end, or leaves the list
\* unchanged when the path is already there; removing leaves no occurrence of
\* the path and every other entry in its place.
C15_ConfigPathList ==
    [][(pc = "start" /\ (args.register_location.some \/ args.remove_location.some)) =>
          /\ pc' = "exited"
          /\ exit_status' = OK
          /\ operating_system' = NoOperatingSystem /\ collated' = <<>> /\ jvms' = <<>>
          /\ NoDuplicates(cfg'.paths)
          /\ args.register_location.some =>
                 cfg'.paths =
                     IF \E i \in 1..Len(cfg.paths) : cfg.paths[i] = args.register_location.v
                     THEN cfg.paths
                     ELSE Append(cfg.paths, args.register_location.v)
          /\ (~args.register_location.some /\ args.remove_location.some) =>
                 cfg'.paths = Without(cfg.paths, args.remove_location.v)]_vars

C15_Witness ==
    /\ pc = "exited"
    /\ exit_status = OK
    /\ args.register_location = Some(PathA)
    /\ cfg.paths = <<PathB, PathA>>

----------------------------------------------------------------------------
(* State of a process that is not running main() *)

NotRunning ==
    /\ pc = "call"
    /\ args = NoArgs
    /\ cfg = [paths |-> <<>>]
    /\ host = <<>>
    /\ operating_system = <<>>
    /\ collated = <<>>
    /\ jvms = <<>>
    /\ exit_status = NoExit
    /\ ret = <<>>

----------------------------------------------------------------------------
(* compare_version_values applied to a pair of version strings *)

InitCompare ==
    /\ NotRunning
    /\ \E a \in Versions(Forms, MaxComps), b \in Versions(Forms, MaxComps) :
           call = [fn |-> "compare_version_values", a |-> a, b |-> b,
                   version1 |-> a.str, version2 |-> b.str]

CallCompareVersionValues ==
    /\ pc = "call"
    /\ call.fn = "compare_version_values"
    /\ pc' = "returned"
    /\ ret' = compare_version_values(call.version1, call.version2)
    /\ UNCHANGED <<args, cfg, host, operating_system, collated, jvms, exit_status, call>>

SpecCompare == InitCompare /\ [][CallCompareVersionValues]_vars

\* C1: compare_version_values gives a result on every pair of valid version
\* strings, of equal or different numbers of components, the result for (a, b)
\* is the inverse of the result for (b, a), and (a, a) is Equal.  Stated here on
\* modern dot-delimited strings, a part of the strings the claim covers.
C1_AntisymmetricReflexive ==
    (/\ pc = "returned"
     /\ call.fn = "compare_version_values"
     /\ call.a.form = "modern" /\ call.b.form = "modern"
     /\ ~IsLegacyForm(call.version1) /\ ~IsLegacyForm(call.version2)) =>
        /\ ret \in {"Less", "Equal", "Greater"}
        /\ compare_version_values(call.version2, call.version1) = Inverse(ret)
        /\ compare_version_values(call.version1, call.version1) = "Equal"

\* C2: a legacy string 1.c1...cn with c1 >= 2, its last separator written "."
\* or "_", compares Equal to the modern string c1...cn, in both argument orders.
C2_LegacyModernEqual ==
    (/\ pc = "returned"
     /\ \/ call.a.form \in {"legacy", "legacy_patch"} /\ call.b.form = "modern"
        \/ call.b.form \in {"legacy", "legacy_patch"} /\ call.a.form = "modern"
     /\ call.a.comps = call.b.comps
     /\ call.a.comps[1] >= 2) =>
        ret = "Equal"

C2_Witness ==
    /\ pc = "returned"
    /\ call.a = Version("legacy_patch", <<8, 0, 1>>)
    /\ call.b = Version("modern", <<8, 0, 1>>)
    /\ ret = "Equal"

----------------------------------------------------------------------------
(* get_compare_version and filter_ver applied to an installed version and a
   --version query *)

TestJvm(version) == Jvm(version, <<"j", "d", "k">>, aarch64, <<"/", "j", "d", "k">>)

InitFilter ==
    /\ NotRunning
    /\ \E v \in Versions(Forms, MaxComps),
          q \in Versions({"modern", "legacy"}, MaxComps + 1),
          plus \in BOOLEAN :
           call = [fn |-> "filter_ver", v |-> v, q |-> q, plus |-> plus,
                   jvm |-> TestJvm(v.str),
                   ver |-> IF plus THEN q.str \o <<"+">> ELSE q.str]

CallGetCompareVersion ==
    /\ pc = "call"
    /\ call.fn = "filter_ver"
    /\ pc' = "returned"
    /\ ret' = [fn |-> "get_compare_version",
               str |-> get_compare_version(call.jvm, call.ver),
               val |-> Returned(TRUE)]
    /\ UNCHANGED <<args, cfg, host, operating_system, collated, jvms, exit_status, call>>

CallFilterVer ==
    /\ pc = "call"
    /\ call.fn = "filter_ver"
    /\ pc' = "returned"
    /\ ret' = [fn |-> "filter_ver", str |-> <<>>,
               val |-> filter_ver(Some(call.ver), call.jvm)]
    /\ UNCHANGED <<args, cfg, host, operating_system, collated, jvms, exit_status, call>>

SpecFilter == InitFilter /\ [][CallGetCompareVersion \/ CallFilterVer]_vars

FilterVerReturned == pc = "returned" /\ ret.fn = "filter_ver"

\* the installed version and the query are both written in modern form
BothModern ==
    /\ call.v.form = "modern" /\ ~IsLegacyForm(call.v.str)
    /\ call.q.form = "modern" /\ ~IsLegacyForm(call.q.str)

\* the query is written as generated: a string beginning "1." is a legacy
\* query, whose components are those after the prefix
QueryAsWritten == call.q.form = "legacy" \/ ~IsLegacyForm(call.q.str)

\* C3: for an installed version in modern form with n components and a query
\* without "+" with k <= n components, filter_ver is true exactly when the
\* query's components equal, position by position, the first k components of
\* the installed version.
C3_ExactCoarserQuery ==
    (/\ FilterVerReturned
     /\ ~call.plus
     /\ call.v.form = "modern" /\ ~IsLegacyForm(call.v.str)
     /\ QueryAsWritten
     /\ Len(call.q.comps) <= Len(call.v.comps)) =>
        ret.val = Returned(call.q.comps = Prefix(call.v.comps, Len(call.q.comps)))

C3_Witness ==
    /\ FilterVerReturned
    /\ ~call.plus
    /\ call.v = Version("modern", <<11, 0, 1>>)
    /\ call.q = Version("modern", <<11>>)
    /\ ret.val = Returned(TRUE)

\* C4: a query without "+" that has more components than the installed version
\* never matches, and filter_ver returns false rather than failing.  Stated
\* here on modern versions, a part of the versions the claim covers.
C4_ExactFinerNoMatch ==
    (/\ FilterVerReturned
     /\ ~call.plus
     /\ BothModern
     /\ Len(call.q.comps) > Len(call.v.comps)) =>
        ret.val = Returned(FALSE)

\* C5: for an installed version in legacy form and a query that is not,
\* get_compare_version strips "1." and keeps as many components as the query
\* has, whatever the query's granularity, and the exact filter then matches a
\* query equal to those components.
C5_LegacyTruncation ==
    (/\ pc = "returned"
     /\ ~call.plus
     /\ call.v.form = "legacy" /\ call.v.comps[1] >= 2
     /\ call.q.form = "modern" /\ ~IsLegacyForm(call.q.str)) =>
        /\ ret.fn = "get_compare_version" =>
               ret.str = Join(Prefix(call.v.comps, Len(call.q.comps)), ".")
        /\ (ret.fn = "filter_ver"
                /\ call.q.comps = Prefix(call.v.comps, Len(call.q.comps))) =>
               ret.val = Returned(TRUE)

\* C6: for a query "q+", filter_ver always returns a boolean, and it is true
\* exactly when the installed version truncated to q's granularity does not
\* compare Less than q.  Stated here on installed versions in legacy form
\* (1.8.0, 1.8.0_1), a part of the versions the claim covers.
C6_MinimumBound ==
    (/\ FilterVerReturned
     /\ call.plus
     /\ QueryAsWritten
     /\ \/ call.v.form = "legacy"
        \/ call.v.form = "legacy_patch" /\ Len(call.v.comps) = 3
     /\ call.v.comps[1] >= 2) =>
        /\ ret.val.ok
        /\ ret.val.val =
               (compare_version_values(get_compare_version(call.jvm, call.q.str),
                                       call.q.str) # "Less")

\* the numeric ordering of two component sequences when a missing trailing
\* component is read as 0
RECURSIVE PaddedOrder(_, _)
PaddedOrder(c1, c2) ==
    IF c1 = <<>> /\ c2 = <<>> THEN "Equal"
    ELSE LET h1 == IF c1 = <<>> THEN 0 ELSE Head(c1)
             h2 == IF c2 = <<>> THEN 0 ELSE Head(c2)
         IN  IF h1 > h2 THEN "Greater"
             ELSE IF h1 < h2 THEN "Less"
             ELSE PaddedOrder(IF c1 = <<>> THEN <<>> ELSE Tail(c1),
                              IF c2 = <<>> THEN <<>> ELSE Tail(c2))

\* C14: a query "q+" never matches an installed version that is numerically
\* older than q when missing trailing components are read as 0, in particular
\* when q has more components than the installed version (installed 8, query
\* 8.1+).  Stated here on modern versions, a part of the versions the claim
\* covers.
C14_MinimumBoundSound ==
    (/\ FilterVerReturned
     /\ call.plus
     /\ BothModern
     /\ PaddedOrder(call.v.comps, call.q.comps) = "Less") =>
        ret.val # Returned(TRUE)

----------------------------------------------------------------------------
(* The sort of collate_jvms applied to a list of Jvm records *)

\* longest list of Jvm records sorted
MaxJvms == 4

SortComps == {<<11, 0, 1>>, <<8, 0, 1>>, <<8>>, <<1>>}

SortVersions == {Written("modern", c) : c \in SortComps}

\* the components a sorted version string was written from
CompsOf(str) == CHOOSE c \in SortComps : Written("modern", c) = str

SortJvms ==
    {Jvm(v, <<"j", "d", "k">>, a, <<"/", "j", "d", "k">>) :
        v \in SortVersions, a \in {x86_64, aarch64}}

InitSort ==
    /\ NotRunning
    /\ \E n \in 1..MaxJvms :
       \E l \in [1..n -> SortJvms], native \in {x86_64, aarch64} :
           call = [fn |-> "sort_by", jvms |-> l, default_arch |-> native]

CallSortBy ==
    /\ pc = "call"
    /\ call.fn = "sort_by"
    /\ pc' = "returned"
    /\ ret' = sort_by(call.jvms, call.default_arch)
    /\ UNCHANGED <<args, cfg, host, operating_system, collated, jvms, exit_status, call>>

SpecSort == InitSort /\ [][CallSortBy]_vars

\* C7: sorting any list of Jvm records with compare_boosting_architecture
\* gives a list in which no earlier entry is older than a later one, and among
\* entries of Equal version those of the native architecture come first.
\* ("Older" is decided by the first differing component, so that 8 and 8.0.1
\* may stand in either order.)
C7_SortedNewestFirstNativeBoosted ==
    pc = "returned" =>
        /\ ret.some
        /\ \A i, j \in 1..Len(ret.v) :
               i < j =>
                   LET order == NumericOrder(CompsOf(ret.v[i].version),
                                             CompsOf(ret.v[j].version))
                   IN  /\ order # "Less"
                       /\ (order = "Equal" /\ ret.v[j].architecture = call.default_arch)
                              => ret.v[i].architecture = call.default_arch

====
